---- MODULE Spec2Model ----
(***************************************************************************)
(* A model of setup_conan.py: Main() creates the Conan profiles directory, *)
(* looks the host platform up in HOST_SETTINGS, registers the 'artyjay'    *)
(* remote when it is absent, and writes one profile file per element of    *)
(* itertools.product(os_arch, compilers, BUILD_TYPES) that does not exist  *)
(* yet.                                                                    *)
(*                                                                         *)
(* A Python dict is modelled as the sequence of its <<key, value>> items   *)
(* in insertion order, a str as a TLA+ string, a list as a sequence.  The  *)
(* module-level tables HOST_SETTINGS and BUILD_TYPES are state: the loop   *)
(* assigns entry_settings['compiler.runtime'] in place.  Every run is a    *)
(* fresh process: it loads the tables anew, and only the file system and   *)
(* the Conan client's remote registry survive it.                          *)
(***************************************************************************)
EXTENDS Naturals, Sequences, FiniteSets, TLC

VARIABLES
    pc,               \* position of the running process in Main
    runs,             \* completed runs (processes) so far
    faults,           \* calls the environment has made fail so far
    host_platform,    \* args.platform
    HOST_SETTINGS,    \* the module-level table, as the process sees it now
    BUILD_TYPES,      \* the module-level list, as the process sees it now
    dir_exists,       \* does ~/.conan/profiles exist
    files,            \* ~/.conan/profiles: file name -> content
    remotes,          \* the Conan client's remote list
    idx,              \* position of the for loop in the product (1-based)
    combo,            \* the loop variable of the last iteration: the tuple
                      \* (os_arch, compiler, build), as indices; << >> before
    profile_name,     \* the loop's local of the last iteration
    profile,          \* the loop's local of the last iteration: the text
    profile_settings, \* the loop's local of the last iteration
    profile_env,      \* the loop's local of the last iteration
    err,              \* the exception that ended the run, "" if none
    loaded,           \* history: the tables as loaded at process start
    files0,           \* history: files when the run started
    remotes0,         \* history: remotes when the run started
    dir0,             \* history: dir_exists when the run started
    written,          \* history: names written by this run, in order
    skipped,          \* history: names this run found existing, in order
    add_calls         \* history: conan.remote_add calls of this run

vars == <<pc, runs, faults, host_platform, HOST_SETTINGS, BUILD_TYPES, dir_exists,
          files, remotes, idx, combo, profile_name, profile, profile_settings,
          profile_env, err, loaded, files0, remotes0, dir0, written, skipped, add_calls>>

-----------------------------------------------------------------------------
(* Bounds *)

\* runs of the tool in one behaviour
MaxRuns == 2

\* calls (conan API, open, write) the environment makes fail in one behaviour
MaxFaults == 1

-----------------------------------------------------------------------------
(* Module constants *)

REMOTE == "artyjay"

REMOTE_URL == "https://artyjay.jfrog.io/artifactory/api/conan/conan-local"

\* CONAN_PROFILE_TEMPLATE.format(settings=s, env=e)
CONAN_PROFILE_TEMPLATE(s, e) ==
    "[settings]\n" \o s \o "\n[options]\n[build_requires]\n[env]\n" \o e \o "\n"

\* The literal HOST_SETTINGS of the source.
HostSettingsLiteral ==
    [ Linux |->
        [ os_arch |-> <<
            [ name |-> "linux-x86_64",
              settings |-> << <<"os", "Linux">>, <<"os_build", "Linux">>,
                              <<"arch", "x86_64">>, <<"arch_build", "x86_64">> >> ] >>,
          compilers |-> <<
            [ name |-> "clang",
              settings |-> << <<"compiler", "clang">>, <<"compiler.version", "11">>,
                              <<"compiler.libcxx", "libstdc++11">> >>,
              env |-> << <<"CC", "clang-11">>, <<"CXX", "clang-11">>,
                         <<"AR", "llvm-ar-11">>, <<"NM", "llvm-nm-11">>,
                         <<"LD", "llvm-link-11">>, <<"STRIP", "llvm-strip-11">> >> ],
            [ name |-> "gcc",
              settings |-> << <<"compiler", "gcc">>, <<"compiler.version", "10">>,
                              <<"compiler.libcxx", "libstdc++11">> >>,
              env |-> << <<"CC", "gcc-10">>, <<"CXX", "g++-10">>,
                         <<"AR", "gcc-ar-10">>, <<"NM", "gcc-nm-10">> >> ] >> ],
      Windows |->
        [ os_arch |-> <<
            [ name |-> "windows-x86_64",
              settings |-> << <<"os", "Windows">>, <<"os_build", "Windows">>,
                              <<"arch", "x86_64">>, <<"arch_build", "x86_64">> >> ] >>,
          compilers |-> <<
            [ name |-> "msvc_mt",
              settings |-> << <<"compiler", "Visual Studio">>,
                              <<"compiler.version", "16">>,
                              <<"compiler.runtime", "MT">> >> ] >> ] ]

\* The literal BUILD_TYPES of the source.
BuildTypesLiteral ==
    << [ name |-> "debug",   settings |-> << <<"build_type", "Debug">> >> ],
       [ name |-> "release", settings |-> << <<"build_type", "Release">> >> ] >>

-----------------------------------------------------------------------------
(* Inputs: the tables a run may load, the command lines, the initial disk   *)
(* and registry.  Besides the tables of the source, a run may load an       *)
(* edited copy (the properties of the tool are stated for table changes     *)
(* between runs, for compiler variants other than msvc_mt, for key          *)
(* conflicts between the mappings and for other iteration orders).          *)

\* An edited HOST_SETTINGS: a second Visual Studio variant, stored runtime
\* values that differ from the computed ones, and keys that several of the
\* merged mappings set (arch, build_type, CC).
HostSettingsEdited ==
    [ HostSettingsLiteral EXCEPT
        !.Windows =
        [ os_arch |-> <<
            [ name |-> "windows-x86_64",
              settings |-> << <<"os", "Windows">>, <<"arch", "x86_64">>,
                              <<"build_type", "None">> >>,
              env |-> << <<"CC", "cc">>, <<"PATH", "C:/tools">> >> ] >>,
          compilers |-> <<
            [ name |-> "msvc_mt",
              settings |-> << <<"compiler", "Visual Studio">>,
                              <<"compiler.runtime", "MD">>,
                              <<"compiler.version", "17">> >>,
              env |-> << <<"CC", "cl">> >> ],
            [ name |-> "msvc_md",
              settings |-> << <<"compiler", "Visual Studio">>,
                              <<"compiler.version", "17">>,
                              <<"arch", "x86">> >> ] >> ] ]

\* BUILD_TYPES in the other order.
BuildTypesReversed == << BuildTypesLiteral[2], BuildTypesLiteral[1] >>

\* What a run may load: the tables of the source, or the edited ones.
Tables ==
    { [hosts |-> HostSettingsLiteral, builds |-> BuildTypesLiteral],
      [hosts |-> HostSettingsEdited,  builds |-> BuildTypesReversed] }

\* args.platform: a key of the table, an unknown name, or None (no -p given).
None == "<None>"

PlatformArgs == {"Linux", "Windows", "Darwin", None}

Stale == "stale content"

NoFiles == [n \in {} |-> ""]

\* The profiles directory before the first run: absent, or holding a file
\* of the name of a profile with some other content (an empty directory is
\* what a run that fails early leaves of an absent one).
InitialDisks ==
    { [dir |-> FALSE, files |-> NoFiles],
      [dir |-> TRUE,  files |-> ("windows-x86_64-msvc_mt-debug" :> Stale)],
      [dir |-> TRUE,  files |-> ("linux-x86_64-clang-release" :> Stale)] }

\* The remote list before the first run (the registry keeps names unique).
InitialRemotes ==
    { << >>,
      << [name |-> "conancenter", url |-> "https://center.conan.io"] >>,
      << [name |-> "conancenter", url |-> "https://center.conan.io"],
         [name |-> REMOTE, url |-> "https://example.org/other"] >> }

-----------------------------------------------------------------------------
(* dict operations *)

Keys(d) == { d[i][1] : i \in DOMAIN d }

\* d.get(k, default)
Get(d, k, default) ==
    IF k \in Keys(d)
    THEN d[CHOOSE i \in DOMAIN d : d[i][1] = k][2]
    ELSE default

\* d[k] = v: an existing key keeps its position, a new key goes last
SetItem(d, k, v) ==
    IF k \in Keys(d)
    THEN [i \in DOMAIN d |-> IF d[i][1] = k THEN <<k, v>> ELSE d[i]]
    ELSE Append(d, <<k, v>>)

RECURSIVE UpdateKeepFirst(_, _)
\* (mutant of Update) a key the dict has keeps its value
UpdateKeepFirst(d, e) ==
    IF e = << >> THEN d
    ELSE UpdateKeepFirst(IF Head(e)[1] \in Keys(d) THEN d
                         ELSE Append(d, Head(e)), Tail(e))

RECURSIVE Update(_, _)
\* d.update(e)
Update(d, e) ==
    IF e = << >> THEN d
    ELSE Update(SetItem(d, Head(e)[1], Head(e)[2]), Tail(e))

\* entry.get(field, {})
EntryGet(entry, field) ==
    IF field \in DOMAIN entry THEN entry[field] ELSE << >>

RECURSIVE JoinLines(_)
\* '\n'.join(lines)
JoinLines(lines) ==
    IF lines = << >> THEN ""
    ELSE IF Len(lines) = 1 THEN lines[1]
    ELSE lines[1] \o "\n" \o JoinLines(Tail(lines))

\* values_string(entry_dict)
values_string(entry_dict) ==
    JoinLines([i \in DOMAIN entry_dict |->
                 entry_dict[i][1] \o "=" \o entry_dict[i][2]])

-----------------------------------------------------------------------------
(* The pieces of Main *)

\* (mutant of Found) the remote is looked for by its URL
FoundByUrl(rs) == SelectSeq(rs, LAMBDA x : x.url = REMOTE_URL)

\* [x for x in remotes if x.name == REMOTE]
Found(rs) == SelectSeq(rs, LAMBDA x : x.name = REMOTE)

\* (mutant of product) the build types are not multiplied in
productFirstBuild(xs, ys, zs) ==
    [i \in 1..(Len(xs) * Len(ys)) |->
        << ((i - 1) \div Len(ys)) + 1, ((i - 1) % Len(ys)) + 1, 1 >>]

\* itertools.product(xs, ys, zs) as the sequence of index triples, the
\* rightmost list advancing fastest; the tuples hold references to the
\* entries of the tables, which the index stands for.
product(xs, ys, zs) ==
    [i \in 1..(Len(xs) * Len(ys) * Len(zs)) |->
        << ((i - 1) \div (Len(ys) * Len(zs))) + 1,
           (((i - 1) \div Len(zs)) % Len(ys)) + 1,
           ((i - 1) % Len(zs)) + 1 >>]

\* (mutant of RuntimeValue) the debug suffix is forgotten
RuntimeValueNoSuffix(compiler_name, build_name) ==
    IF compiler_name = "msvc_mt" THEN "MT" ELSE "MD"

\* runtime_value = f'{runtime}{debug_suffix}'
RuntimeValue(compiler_name, build_name) ==
    (IF compiler_name = "msvc_mt" THEN "MT" ELSE "MD")
        \o (IF build_name = "debug" THEN "d" ELSE "")

\* (mutant of SpecialCase) the suffix is appended to the value in the table
SpecialCaseAppend(entry_settings, compiler_name, build_name) ==
    IF Get(entry_settings, "compiler", "") = "Visual Studio"
    THEN SetItem(entry_settings, "compiler.runtime",
                 Get(entry_settings, "compiler.runtime",
                     IF compiler_name = "msvc_mt" THEN "MT" ELSE "MD")
                   \o (IF build_name = "debug" THEN "d" ELSE ""))
    ELSE entry_settings

\* The Visual Studio special case on one entry's settings dict (in place).
SpecialCase(entry_settings, compiler_name, build_name) ==
    IF Get(entry_settings, "compiler", "") = "Visual Studio"
    THEN SetItem(entry_settings, "compiler.runtime",
                 RuntimeValue(compiler_name, build_name))
    ELSE entry_settings

\* The entry after the inner loop visited it: entry.get('settings', {}) is
\* the entry's own dict when it has one, a temporary otherwise.
Visited(entry, compiler_name, build_name) ==
    IF "settings" \in DOMAIN entry
    THEN [entry EXCEPT !.settings = SpecialCase(@, compiler_name, build_name)]
    ELSE entry

\* (mutant of ProfileName) the build type is left out of the name
ProfileNameNoBuild(os_arch_name, compiler_name, build_name) ==
    os_arch_name \o "-" \o compiler_name

\* profile_name = f'{os_arch_name}-{compiler_name}-{build_name}'
ProfileName(os_arch_name, compiler_name, build_name) ==
    os_arch_name \o "-" \o compiler_name \o "-" \o build_name

\* (mutant of PathExists) the test is lost: every profile is written
PathExistsNever(fs, name) == FALSE

\* os.path.exists(profile_path)
PathExists(fs, name) == name \in DOMAIN fs

\* open(profile_path, 'wt'): the file is created empty
OpenForWrite(fs, name) == (name :> "") @@ fs

\* profile_file.write(profile), and the file is closed
WriteText(fs, name, text) == (name :> text) @@ fs

\* (mutant of FilesAfter) a failed write removes what the run wrote
FilesAfterCleanup(outcome, fs, name, text) ==
    CASE outcome = "skip"  -> fs
      [] outcome = "write" -> WriteText(OpenForWrite(fs, name), name, text)
      [] outcome = "open"  -> [n \in DOMAIN fs \cap DOMAIN files0 |-> fs[n]]
      [] outcome = "trunc" -> [n \in DOMAIN fs \cap DOMAIN files0 |-> fs[n]]

\* The directory after the if/else on os.path.exists: "skip" the path
\* exists, "write" the file is written, "open" open raises (no file),
\* "trunc" open created the file and write raised.
FilesAfter(outcome, fs, name, text) ==
    CASE outcome = "skip"  -> fs
      [] outcome = "write" -> WriteText(OpenForWrite(fs, name), name, text)
      [] outcome = "open"  -> fs
      [] outcome = "trunc" -> OpenForWrite(fs, name)

\* The tuples the for loop of the running process goes through.
Profiles ==
    product(HOST_SETTINGS[host_platform].os_arch,
            HOST_SETTINGS[host_platform].compilers, BUILD_TYPES)

-----------------------------------------------------------------------------
(* Actions *)

Idle ==
    /\ pc = "idle"
    /\ host_platform = None
    /\ HOST_SETTINGS = HostSettingsLiteral
    /\ BUILD_TYPES = BuildTypesLiteral
    /\ loaded = [hosts |-> HostSettingsLiteral, builds |-> BuildTypesLiteral]
    /\ idx = 0
    /\ combo = << >>
    /\ profile_name = ""
    /\ profile = ""
    /\ profile_settings = << >>
    /\ profile_env = << >>
    /\ err = ""
    /\ files0 = NoFiles
    /\ remotes0 = << >>
    /\ dir0 = FALSE
    /\ written = << >>
    /\ skipped = << >>
    /\ add_calls = 0

Init ==
    /\ Idle
    /\ runs = 0
    /\ faults = 0
    /\ \E d \in InitialDisks : dir_exists = d.dir /\ files = d.files
    /\ remotes \in InitialRemotes

\* A new process: the module is loaded, the command line parsed.
Start ==
    /\ pc = "idle"
    /\ runs < MaxRuns
    /\ \E t \in Tables, p \in PlatformArgs :
         /\ HOST_SETTINGS' = t.hosts
         /\ BUILD_TYPES' = t.builds
         /\ loaded' = t
         /\ host_platform' = p
    /\ pc' = "makedirs"
    /\ files0' = files
    /\ remotes0' = remotes
    /\ dir0' = dir_exists
    /\ UNCHANGED <<runs, faults, dir_exists, files, remotes, idx, combo, profile_name,
                   profile, profile_settings, profile_env, err, written,
                   skipped, add_calls>>

\* (mutant of MakeDirs) the directory is not created before the lookup
MakeDirsLate ==
    /\ pc = "makedirs"
    /\ pc' = "lookup"
    /\ UNCHANGED <<runs, faults, host_platform, HOST_SETTINGS, BUILD_TYPES, dir_exists,
                   files, remotes, idx, combo, profile_name, profile,
                   profile_settings, profile_env, err, loaded, files0,
                   remotes0, dir0, written, skipped, add_calls>>

\* os.makedirs(profiles_path, exist_ok=True)
MakeDirs ==
    /\ pc = "makedirs"
    /\ dir_exists' = TRUE
    /\ pc' = "lookup"
    /\ UNCHANGED <<runs, faults, host_platform, HOST_SETTINGS, BUILD_TYPES, files,
                   remotes, idx, combo, profile_name, profile,
                   profile_settings, profile_env, err, loaded, files0,
                   remotes0, dir0, written, skipped, add_calls>>

\* (mutant of Lookup) a missing key does not raise
LookupNoRaise ==
    /\ pc = "lookup"
    /\ pc' = "remote"
    /\ UNCHANGED <<runs, faults, host_platform, HOST_SETTINGS, BUILD_TYPES, dir_exists,
                   files, remotes, idx, combo, profile_name, profile,
                   profile_settings, profile_env, err, loaded, files0,
                   remotes0, dir0, written, skipped, add_calls>>

\* settings = HOST_SETTINGS[host_platform]
Lookup ==
    /\ pc = "lookup"
    /\ IF host_platform \in DOMAIN HOST_SETTINGS
       THEN pc' = "remote" /\ err' = err
       ELSE pc' = "failed" /\ err' = "KeyError"
    /\ UNCHANGED <<runs, faults, host_platform, HOST_SETTINGS, BUILD_TYPES, dir_exists,
                   files, remotes, idx, combo, profile_name, profile,
                   profile_settings, profile_env, loaded, files0, remotes0,
                   dir0, written, skipped, add_calls>>

\* conan_api.factory(), create_app() or remote_list() raises
RemoteListFail ==
    /\ pc = "remote"
    /\ faults < MaxFaults
    /\ faults' = faults + 1
    /\ pc' = "failed"
    /\ err' = "ConanException"
    /\ UNCHANGED <<runs, host_platform, HOST_SETTINGS, BUILD_TYPES, dir_exists,
                   files, remotes, idx, combo, profile_name, profile,
                   profile_settings, profile_env, loaded, files0, remotes0,
                   dir0, written, skipped, add_calls>>

\* len(found) != 0: nothing to do; the for loop starts
RemoteSkip ==
    /\ pc = "remote"
    /\ Len(Found(remotes)) # 0
    /\ pc' = "loop"
    /\ idx' = 1
    /\ UNCHANGED <<runs, faults, host_platform, HOST_SETTINGS, BUILD_TYPES, dir_exists,
                   files, remotes, combo, profile_name, profile,
                   profile_settings, profile_env, err, loaded, files0,
                   remotes0, dir0, written, skipped, add_calls>>

\* len(found) == 0: conan.remote_add(REMOTE, REMOTE_URL); the for loop starts
RemoteAdd ==
    /\ pc = "remote"
    /\ Len(Found(remotes)) = 0
    /\ remotes' = Append(remotes, [name |-> REMOTE, url |-> REMOTE_URL])
    /\ add_calls' = add_calls + 1
    /\ pc' = "loop"
    /\ idx' = 1
    /\ UNCHANGED <<runs, faults, host_platform, HOST_SETTINGS, BUILD_TYPES, dir_exists,
                   files, combo, profile_name, profile, profile_settings,
                   profile_env, err, loaded, files0, remotes0, dir0, written,
                   skipped>>

\* len(found) == 0 and conan.remote_add raises
RemoteAddFail ==
    /\ pc = "remote"
    /\ faults < MaxFaults
    /\ faults' = faults + 1
    /\ Len(Found(remotes)) = 0
    /\ add_calls' = add_calls + 1
    /\ pc' = "failed"
    /\ err' = "ConanException"
    /\ UNCHANGED <<runs, host_platform, HOST_SETTINGS, BUILD_TYPES, dir_exists,
                   files, remotes, idx, combo, profile_name, profile,
                   profile_settings, profile_env, loaded, files0, remotes0,
                   dir0, written, skipped>>

\* One iteration of the for loop; outcome says how the if/else on
\* os.path.exists goes (see FilesAfter).
LoopBody(outcome) ==
    /\ pc = "loop"
    /\ idx <= Len(Profiles)
    /\ LET t             == Profiles[idx]
           os_arch       == HOST_SETTINGS[host_platform].os_arch[t[1]]
           compiler      == HOST_SETTINGS[host_platform].compilers[t[2]]
           build         == BUILD_TYPES[t[3]]
           os_arch_name  == os_arch.name
           compiler_name == compiler.name
           build_name    == build.name
           os_arch2      == Visited(os_arch, compiler_name, build_name)
           compiler2     == Visited(compiler, compiler_name, build_name)
           build2        == Visited(build, compiler_name, build_name)
           settings3     == Update(Update(Update(<< >>,
                                EntryGet(os_arch2, "settings")),
                                EntryGet(compiler2, "settings")),
                                EntryGet(build2, "settings"))
           env3          == Update(Update(Update(<< >>,
                                EntryGet(os_arch2, "env")),
                                EntryGet(compiler2, "env")),
                                EntryGet(build2, "env"))
           name          == ProfileName(os_arch_name, compiler_name, build_name)
           text          == CONAN_PROFILE_TEMPLATE(values_string(settings3),
                                                   values_string(env3))
       IN
       /\ combo' = t
       /\ profile_name' = name
       /\ profile' = text
       /\ HOST_SETTINGS' =
            [HOST_SETTINGS EXCEPT ![host_platform] =
                [@ EXCEPT !.os_arch[t[1]] = os_arch2,
                          !.compilers[t[2]] = compiler2]]
       /\ BUILD_TYPES' = [BUILD_TYPES EXCEPT ![t[3]] = build2]
       /\ profile_settings' = settings3
       /\ profile_env' = env3
       /\ files' = FilesAfter(outcome, files, name, text)
       /\ CASE outcome = "skip" ->
                 /\ PathExists(files, name)
                 /\ skipped' = Append(skipped, name)
                 /\ idx' = idx + 1
                 /\ UNCHANGED <<pc, err, written, faults>>
            [] outcome = "write" ->
                 /\ ~PathExists(files, name)
                 /\ written' = Append(written, name)
                 /\ idx' = idx + 1
                 /\ UNCHANGED <<pc, err, skipped, faults>>
            [] outcome \in {"open", "trunc"} ->
                 /\ ~PathExists(files, name)
                 /\ faults < MaxFaults
                 /\ faults' = faults + 1
                 /\ pc' = "failed"
                 /\ err' = "OSError"
                 /\ UNCHANGED <<idx, written, skipped>>
    /\ UNCHANGED <<runs, host_platform, dir_exists, remotes, loaded, files0,
                   remotes0, dir0, add_calls>>

\* the path exists: 'Skipping profile generation ...'
SkipProfile == LoopBody("skip")

\* the path does not exist: the profile is written
WriteProfile == LoopBody("write")

\* open(profile_path, 'wt') raises
OpenFail == LoopBody("open")

\* profile_file.write(profile) raises after open created the file
WriteFail == LoopBody("trunc")

\* the product is exhausted: Main returns
LoopEnd ==
    /\ pc = "loop"
    /\ idx > Len(Profiles)
    /\ pc' = "done"
    /\ UNCHANGED <<runs, faults, host_platform, HOST_SETTINGS, BUILD_TYPES, dir_exists,
                   files, remotes, idx, combo, profile_name, profile,
                   profile_settings, profile_env, err, loaded, files0,
                   remotes0, dir0, written, skipped, add_calls>>

\* sys.exit: the process is gone; the disk and the registry remain
Exit ==
    /\ pc \in {"done", "failed"}
    /\ pc' = "idle"
    /\ runs' = runs + 1
    /\ host_platform' = None
    /\ HOST_SETTINGS' = HostSettingsLiteral
    /\ BUILD_TYPES' = BuildTypesLiteral
    /\ loaded' = [hosts |-> HostSettingsLiteral, builds |-> BuildTypesLiteral]
    /\ idx' = 0
    /\ combo' = << >>
    /\ profile_name' = ""
    /\ profile' = ""
    /\ profile_settings' = << >>
    /\ profile_env' = << >>
    /\ err' = ""
    /\ files0' = NoFiles
    /\ remotes0' = << >>
    /\ dir0' = FALSE
    /\ written' = << >>
    /\ skipped' = << >>
    /\ add_calls' = 0
    /\ UNCHANGED <<faults, dir_exists, files, remotes>>

Next ==
    \/ Start
    \/ MakeDirs
    \/ Lookup
    \/ RemoteListFail
    \/ RemoteSkip
    \/ RemoteAdd
    \/ RemoteAddFail
    \/ SkipProfile
    \/ WriteProfile
    \/ OpenFail
    \/ WriteFail
    \/ LoopEnd
    \/ Exit

Spec == Init /\ [][Next]_vars

-----------------------------------------------------------------------------
(* What the properties are stated against: the tables as the process        *)
(* loaded them, and the text of a profile computed from them alone.         *)

Range(f) == { f[i] : i \in DOMAIN f }

\* A known platform was given and the run got past the lookup.
PastLookup ==
    \/ pc \in {"remote", "loop", "done"}
    \/ pc = "failed" /\ err # "KeyError"

\* The run got past the remote registration.
PastRemote ==
    \/ pc \in {"loop", "done"}
    \/ pc = "failed" /\ err = "OSError"

HasRemote(rs) == \E i \in DOMAIN rs : rs[i].name = REMOTE

\* The entries of the i-th tuple of the product, as loaded.
LoadedOsArch(t)   == loaded.hosts[host_platform].os_arch[t[1]]

LoadedCompiler(t) == loaded.hosts[host_platform].compilers[t[2]]

LoadedBuild(t)    == loaded.builds[t[3]]

\* The name '<os_arch name>-<compiler name>-<build type name>' of a tuple.
ExpectedName(t) ==
    LoadedOsArch(t).name \o "-" \o LoadedCompiler(t).name \o "-" \o LoadedBuild(t).name

\* The runtime linkage the tool is to give a Visual Studio combination.
ExpectedRuntime(t) ==
    IF LoadedCompiler(t).name = "msvc_mt"
    THEN (IF LoadedBuild(t).name = "debug" THEN "MTd" ELSE "MT")
    ELSE (IF LoadedBuild(t).name = "debug" THEN "MDd" ELSE "MD")

IsVisualStudio(entry) ==
    Get(EntryGet(entry, "settings"), "compiler", "") = "Visual Studio"

\* The settings of a loaded entry with the runtime linkage of the tuple.
ExpectedEntrySettings(entry, t) ==
    IF IsVisualStudio(entry)
    THEN SetItem(entry.settings, "compiler.runtime", ExpectedRuntime(t))
    ELSE EntryGet(entry, "settings")

\* The text of the profile of a tuple, from the loaded tables alone.
ExpectedProfile(t) ==
    CONAN_PROFILE_TEMPLATE(
        values_string(Update(Update(ExpectedEntrySettings(LoadedOsArch(t), t),
                                    ExpectedEntrySettings(LoadedCompiler(t), t)),
                             ExpectedEntrySettings(LoadedBuild(t), t))),
        values_string(Update(Update(EntryGet(LoadedOsArch(t), "env"),
                                    EntryGet(LoadedCompiler(t), "env")),
                             EntryGet(LoadedBuild(t), "env"))))

\* m has every key of the mappings exactly once, with the value of the last
\* mapping that has the key.
IsOrderedMerge(m, maps) ==
    /\ Cardinality(Keys(m)) = Len(m)
    /\ Keys(m) = UNION { Keys(maps[j]) : j \in DOMAIN maps }
    /\ \A k \in Keys(m) :
         LET last == CHOOSE j \in DOMAIN maps :
                        /\ k \in Keys(maps[j])
                        /\ \A j2 \in DOMAIN maps : k \in Keys(maps[j2]) => j2 <= j
         IN  Get(m, k, "") = Get(maps[last], k, "")

\* The entries of the last tuple as the tables hold them now.
CurrentEntries ==
    << HOST_SETTINGS[host_platform].os_arch[combo[1]],
       HOST_SETTINGS[host_platform].compilers[combo[2]],
       BUILD_TYPES[combo[3]] >>

-----------------------------------------------------------------------------
(* C1: a run never changes or removes a profile file that exists: every    *)
(* step leaves every existing file with the content it had, whatever the   *)
(* tables of this run would render.                                        *)
C1_NeverOverwrites ==
    [][\A n \in DOMAIN files : n \in DOMAIN files' /\ files'[n] = files[n]]_vars

\* a later run met a file an earlier run wrote from other tables, and left it
C1_Witness ==
    /\ runs >= 1
    /\ pc = "loop"
    /\ Len(skipped) > 0
    /\ skipped[Len(skipped)] = profile_name
    /\ files[profile_name] = files0[profile_name]
    /\ files[profile_name] \notin {profile, Stale, ""}

(* C2: a run for a known platform that started from an empty profiles      *)
(* directory and completed has written exactly one file per element of the *)
(* Cartesian product, |os_arch| x |compilers| x |BUILD_TYPES| files, which *)
(* is 4 for Linux and 2 for Windows with the tables of the source.         *)
C2_ProfileCount ==
    (pc = "done" /\ files0 = NoFiles) =>
        LET h == loaded.hosts[host_platform] IN
        /\ DOMAIN files =
             { o.name \o "-" \o c.name \o "-" \o b.name :
                 o \in Range(h.os_arch), c \in Range(h.compilers),
                 b \in Range(loaded.builds) }
        /\ Cardinality(DOMAIN files) =
             Len(h.os_arch) * Len(h.compilers) * Len(loaded.builds)
        /\ loaded.hosts = HostSettingsLiteral =>
             Cardinality(DOMAIN files) = (IF host_platform = "Linux" THEN 4 ELSE 2)

C2_Witness ==
    /\ pc = "done"
    /\ files0 = NoFiles
    /\ host_platform = "Linux"
    /\ Cardinality(DOMAIN files) = 4

(* C3: the name of the profile of a tuple is '<os_arch>-<compiler>-<build  *)
(* type>', distinct tuples of the product have distinct names, and a file  *)
(* a run skips existed when the run started (no tuple of the same run      *)
(* produced it).                                                           *)
C3_UniqueNames ==
    PastRemote =>
        /\ combo # << >> => profile_name = ExpectedName(combo)
        /\ \A i, j \in DOMAIN Profiles :
             i # j => ExpectedName(Profiles[i]) # ExpectedName(Profiles[j])
        /\ \A i, j \in DOMAIN written : i # j => written[i] # written[j]
        /\ \A i \in DOMAIN skipped : skipped[i] \in DOMAIN files0
        /\ \A i \in DOMAIN written : written[i] \notin DOMAIN files0
        /\ pc = "done" => Len(written) + Len(skipped) = Len(Profiles)

C3_Witness ==
    /\ pc = "done"
    /\ host_platform = "Windows"
    /\ Len(written) = 4
    /\ profile_name = "windows-x86_64-msvc_md-debug"

(* C4: for a tuple whose compiler setting is 'Visual Studio' the profile's *)
(* compiler.runtime is MT/MTd for the variant msvc_mt and MD/MDd for any   *)
(* other variant (release/debug), whatever the table stores; for any other *)
(* compiler the iteration changes no table entry and compiler.runtime is   *)
(* what the merged mappings give.                                          *)
C4_RuntimeLinkage ==
    combo # << >> =>
        IF IsVisualStudio(LoadedCompiler(combo))
        THEN Get(profile_settings, "compiler.runtime", "") = ExpectedRuntime(combo)
        ELSE /\ HOST_SETTINGS = loaded.hosts
             /\ BUILD_TYPES = loaded.builds
             /\ Get(profile_settings, "compiler.runtime", "") =
                  Get(LoadedCompiler(combo).settings, "compiler.runtime", "")

\* msvc_mt, stored as 'MD' in the edited table, debug build: 'MTd'
C4_Witness ==
    /\ combo # << >>
    /\ LoadedCompiler(combo).name = "msvc_mt"
    /\ Get(LoadedCompiler(combo).settings, "compiler.runtime", "") = "MD"
    /\ LoadedBuild(combo).name = "debug"
    /\ Get(profile_settings, "compiler.runtime", "") = "MTd"

(* C5: a run that gets past the remote step has called remote_add never    *)
(* and left the list as it was if an entry named 'artyjay' was there, and  *)
(* has called it once, appending ('artyjay', REMOTE_URL), if not; the list *)
(* never holds two entries of that name, and holds one after the step.     *)
C5_RemoteIdempotent ==
    /\ Cardinality({ i \in DOMAIN remotes : remotes[i].name = REMOTE }) <= 1
    /\ (pc # "idle" /\ HasRemote(remotes0)) => add_calls = 0 /\ remotes = remotes0
    /\ PastRemote =>
         /\ Cardinality({ i \in DOMAIN remotes : remotes[i].name = REMOTE }) = 1
         /\ ~HasRemote(remotes0) =>
              /\ add_calls = 1
              /\ remotes = Append(remotes0, [name |-> REMOTE, url |-> REMOTE_URL])

\* the entry exists under another URL and a complete run left the list alone
C5_Witness ==
    /\ pc = "done"
    /\ \E i \in DOMAIN remotes0 :
         remotes0[i].name = REMOTE /\ remotes0[i].url # REMOTE_URL
    /\ remotes = remotes0

(* C6: a run whose platform is no key of HOST_SETTINGS (unknown, or None)  *)
(* gets no further than the lookup: it ends with KeyError, having written  *)
(* no file.                                                                *)
C6_UnknownPlatform ==
    (pc \notin {"idle", "makedirs", "lookup"}
        /\ host_platform \notin DOMAIN loaded.hosts) =>
        /\ pc = "failed"
        /\ err = "KeyError"
        /\ files = files0
        /\ written = << >>

C6_Witness ==
    /\ pc = "failed"
    /\ err = "KeyError"
    /\ host_platform = None
    /\ files0 # NoFiles

(* C7: when a profile write fails the run is over with the files of the    *)
(* earlier tuples on disk in full (those it wrote) or as they were (those  *)
(* it skipped), the remote registered, and no file of a later tuple        *)
(* written.                                                                *)
C7_NoRollback ==
    (pc = "failed" /\ err = "OSError") =>
        /\ idx \in DOMAIN Profiles
        /\ \A i \in 1..(idx - 1) :
             LET n == ExpectedName(Profiles[i]) IN
             /\ n \in DOMAIN files
             /\ IF n \in DOMAIN files0
                THEN files[n] = files0[n]
                ELSE files[n] = ExpectedProfile(Profiles[i])
        /\ HasRemote(remotes)
        /\ add_calls = 1 => remotes = Append(remotes0, [name |-> REMOTE, url |-> REMOTE_URL])
        /\ \A j \in (idx + 1)..Len(Profiles) :
             LET n == ExpectedName(Profiles[j]) IN
             n \in DOMAIN files => n \in DOMAIN files0 /\ files[n] = files0[n]

\* the third write failed after the run added the remote and wrote two files
C7_Witness ==
    /\ pc = "failed"
    /\ err = "OSError"
    /\ add_calls = 1
    /\ Len(written) = 2
    /\ idx = 3
    /\ idx < Len(Profiles)

(* C8: after an iteration profile_settings is the ordered merge of the     *)
(* settings mappings of the os_arch, compiler and build type entries (as   *)
(* they are when merged) and profile_env that of their env mappings: each  *)
(* key once, the value of the last mapping that has the key.               *)
C8_OrderedMerge ==
    combo # << >> =>
        /\ IsOrderedMerge(profile_settings,
              [j \in 1..3 |-> EntryGet(CurrentEntries[j], "settings")])
        /\ IsOrderedMerge(profile_env,
              [j \in 1..3 |-> EntryGet(CurrentEntries[j], "env")])

\* build type over os_arch (build_type), compiler over os_arch (CC)
C8_Witness ==
    /\ combo # << >>
    /\ Get(LoadedOsArch(combo).settings, "build_type", "") = "None"
    /\ Get(profile_settings, "build_type", "") = "Release"
    /\ Get(LoadedOsArch(combo).env, "CC", "") = "cc"
    /\ Get(LoadedCompiler(combo).env, "CC", "") = "cl"
    /\ Get(profile_env, "CC", "") = "cl"
    /\ Get(profile_env, "PATH", "") = "C:/tools"

(* C9: the text rendered for a tuple, and every file the run wrote, is the *)
(* text computed from the tables as loaded and the tuple alone, whatever   *)
(* the earlier iterations left in the tables; and after a complete run for *)
(* Windows with the tables of the source the table's compiler.runtime is   *)
(* 'MT'.                                                                   *)
C9_NoLeakBetweenIterations ==
    /\ combo # << >> => profile = ExpectedProfile(combo)
    /\ PastRemote =>
         \A i \in DOMAIN Profiles :
            ExpectedName(Profiles[i]) \in Range(written) =>
               files[ExpectedName(Profiles[i])] = ExpectedProfile(Profiles[i])
    /\ ( /\ pc = "done"
         /\ host_platform = "Windows"
         /\ loaded = [hosts |-> HostSettingsLiteral, builds |-> BuildTypesLiteral] ) =>
         Get(HOST_SETTINGS.Windows.compilers[1].settings, "compiler.runtime", "") = "MT"

\* the release iteration found 'MTd' in the table and rendered 'MT'
C9_Witness ==
    /\ pc = "loop"
    /\ combo # << >>
    /\ idx > 2
    /\ LoadedBuild(combo).name = "release"
    /\ Get(LoadedCompiler(combo).settings, "compiler.runtime", "") = "MT"
    /\ Get(profile_settings, "compiler.runtime", "") = "MT"
    /\ Get(profile_settings, "build_type", "") = "Release"
    /\ loaded.builds = BuildTypesLiteral

(* C10: the steps come in the order makedirs, lookup, remote, profiles: a  *)
(* run that failed at the lookup has created the directory and changed     *)
(* neither the remote list nor a file, a run that failed at the remote     *)
(* step has written no file, and nothing is written before the remote is   *)
(* registered.                                                             *)
C10_StepOrder ==
    /\ pc \in {"lookup", "remote", "loop", "done", "failed"} => dir_exists
    /\ pc \in {"makedirs", "lookup"} => remotes = remotes0 /\ files = files0
    /\ err = "KeyError" =>
         dir_exists /\ remotes = remotes0 /\ add_calls = 0 /\ files = files0
    /\ (pc = "remote" \/ err = "ConanException") =>
         /\ host_platform \in DOMAIN loaded.hosts
         /\ files = files0
         /\ written = << >>
    /\ (pc # "idle" /\ files # files0) => PastRemote /\ HasRemote(remotes)

\* the lookup failed in a run that had to create the directory
C10_Witness ==
    /\ pc = "failed"
    /\ err = "KeyError"
    /\ ~dir0
    /\ dir_exists
    /\ remotes = remotes0

====
